---- MODULE Spec2Model ----
(***************************************************************************)
(* A model of skopt/space/space.py: the search-space dimensions Real,      *)
(* Integer and Categorical, their transform pipelines, and the Space       *)
(* container that batches them.                                            *)
(*                                                                         *)
(* Numbers are exact rationals n/d in lowest terms; a value of the         *)
(* program (a coordinate of a point, a cell of a warped matrix, a name)    *)
(* is a record [k, n, d, s] whose kind k is "num", "str" (a Python str),   *)
(* "numstr" (the str that numpy renders a number into when it coerces a    *)
(* mixed array to a string dtype), "nan" or "none".                        *)
(***************************************************************************)
EXTENDS Integers, Sequences, FiniteSets, TLC

VARIABLES
    dimensions,   \* Space.dimensions: the live sequence of dimension objects
    dims0,        \* the dimension objects as they were at construction
    out,          \* the last operation: its name, arguments and outcome
    clean         \* TRUE while no set_transformer call has raised so far

vars == <<dimensions, dims0, out, clean>>

(***************************************************************************)
(* Bounds of the model.                                                    *)
(***************************************************************************)
MaxDims == 2        \* dimensions in a Space
MaxSamples == 2     \* rows of a point list handed to Space.transform
MaxCats == 3        \* categories of a Categorical
MaxHigh == 2        \* largest upper bound of a uniform numeric dimension
MaxExp == 2         \* largest exponent of a log-uniform dimension's bound

(***************************************************************************)
(* Values and exact arithmetic.                                            *)
(***************************************************************************)
Abs(i) == IF i < 0 THEN -i ELSE i

RECURSIVE GCD(_, _)
GCD(a, b) == IF b = 0 THEN a ELSE GCD(b, a % b)

Rat(n, d) ==
    LET g == GCD(Abs(n), Abs(d))
        s == IF d < 0 THEN -1 ELSE 1
    IN  [k |-> "num", n |-> (s * n) \div g, d |-> (s * d) \div g, s |-> ""]

Num(i) == [k |-> "num", n |-> i, d |-> 1, s |-> ""]
Str(t) == [k |-> "str", n |-> 0, d |-> 1, s |-> t]
NoneV == [k |-> "none", n |-> 0, d |-> 1, s |-> ""]
NaN == [k |-> "nan", n |-> 0, d |-> 1, s |-> ""]

IsNum(v) == v.k = "num"
IsWhole(v) == v.k = "num" /\ v.d = 1

RAdd(a, b) == Rat(a.n * b.d + b.n * a.d, a.d * b.d)
RSub(a, b) == Rat(a.n * b.d - b.n * a.d, a.d * b.d)
RMul(a, b) == Rat(a.n * b.n, a.d * b.d)
RDiv(a, b) == IF b.n = 0 THEN NaN ELSE Rat(a.n * b.d, a.d * b.n)
RLe(a, b) == a.n * b.d <= b.n * a.d
RLt(a, b) == a.n * b.d < b.n * a.d
RFloor(a) == a.n \div a.d

\* numpy.round: to the nearest integer, a tie going to the even neighbour
NpRound(a) ==
    LET f == RFloor(a)
        twice == 2 * (a.n - f * a.d)      \* 2 * (a - f) * a.d
    IN  IF twice < a.d THEN Num(f)
        ELSE IF twice > a.d THEN Num(f + 1)
        ELSE IF f % 2 = 0 THEN Num(f) ELSE Num(f + 1)

\* numpy.clip(a, lo, hi) == minimum(maximum(a, lo), hi)
NpClip(a, lo, hi) ==
    LET m == IF RLt(a, lo) THEN lo ELSE a
    IN  IF RLt(hi, m) THEN hi ELSE m

RECURSIVE Pow(_, _)
Pow(b, e) == IF e = 0 THEN 1 ELSE b * Pow(b, e - 1)

(***************************************************************************)
(* Arrays.  A column or a block of a warped matrix is a sequence of rows,  *)
(* one per sample, each row the sequence of that sample's cells (one cell  *)
(* for a scalar transform, several for a one-hot block).  An operation on  *)
(* an array either returns an array or raises: [err, rows] with err = ""   *)
(* when it returned.                                                       *)
(***************************************************************************)
Irr == [k |-> "irr", n |-> 0, d |-> 1, s |-> ""]
ErrV(e) == [k |-> "err", n |-> 0, d |-> 1, s |-> e]
IsErr(v) == v.k = "err"

Ok(rows) == [err |-> "", rows |-> rows]
Raise(e) == [err |-> e, rows |-> <<>>]

\* the first error among the cells of an array, "" when there is none
FirstErr(rows) ==
    IF \E i \in 1..Len(rows) : \E j \in 1..Len(rows[i]) : IsErr(rows[i][j])
    THEN LET i == CHOOSE i \in 1..Len(rows) :
                      /\ \E j \in 1..Len(rows[i]) : IsErr(rows[i][j])
                      /\ \A h \in 1..(i - 1) : \A j \in 1..Len(rows[h]) : ~IsErr(rows[h][j])
             j == CHOOSE j \in 1..Len(rows[i]) :
                      /\ IsErr(rows[i][j])
                      /\ \A h \in 1..(j - 1) : ~IsErr(rows[i][h])
         IN  rows[i][j].s
    ELSE ""

Checked(rows) == IF FirstErr(rows) = "" THEN Ok(rows) ELSE Raise(FirstErr(rows))

\* position (from 0) of the first category equal to v, -1 when there is none
IndexOf(cats, v) ==
    IF \E i \in 1..Len(cats) : cats[i] = v
    THEN (CHOOSE i \in 1..Len(cats) : cats[i] = v /\ \A h \in 1..(i - 1) : cats[h] # v) - 1
    ELSE -1

\* str(v): a str stays itself, a number becomes its rendering
PyStr(v) == IF v.k = "num" THEN [v EXCEPT !.k = "numstr"] ELSE v

(***************************************************************************)
(* Transform primitives (skopt/space/transformers.py): a stage of a        *)
(* pipeline is a record naming the primitive and its fitted parameters.    *)
(***************************************************************************)
Stage(t, low, high, is_int, unbounded, ncat, base, cats) ==
    [t |-> t, low |-> low, high |-> high, is_int |-> is_int,
     unbounded |-> unbounded, ncat |-> ncat, base |-> base, cats |-> cats]

Identity == Stage("Identity", NoneV, NoneV, FALSE, FALSE, 0, 0, <<>>)
LogN(base) == Stage("LogN", NoneV, NoneV, FALSE, FALSE, 0, base, <<>>)
Normalize(low, high, is_int, unbounded, ncat) ==
    Stage("Normalize", low, high, is_int, unbounded, ncat, 0, <<>>)
CategoricalEncoder(cats) == Stage("CategoricalEncoder", NoneV, NoneV, FALSE, FALSE, 0, 0, cats)
StringEncoder(cats) == Stage("StringEncoder", NoneV, NoneV, FALSE, FALSE, 0, 0, cats)
LabelEncoder(cats) == Stage("LabelEncoder", NoneV, NoneV, FALSE, FALSE, 0, 0, cats)

\* log_base(x) for a number the model can name: x = base^e with e in 0..MaxExp+2
LogBase(base, x) ==
    IF ~IsNum(x) THEN ErrV("TypeError")
    ELSE IF x.n <= 0 THEN NaN
    ELSE IF \E e \in 0..(MaxExp + 2) : x = Num(Pow(base, e))
         THEN Num(CHOOSE e \in 0..(MaxExp + 2) : x = Num(Pow(base, e)))
         ELSE Irr

\* base^y for a whole exponent y
PowBase(base, y) ==
    IF y.k \in {"nan", "irr"} THEN y
    ELSE IF ~IsNum(y) THEN ErrV("TypeError")
    ELSE IF ~IsWhole(y) THEN Irr
    ELSE IF y.n >= 0 THEN Num(Pow(base, y.n)) ELSE Rat(1, Pow(base, -y.n))

LogN_transform(st, v) == LogBase(st.base, v)
LogN_inverse_transform(st, v) == PowBase(st.base, v)

Normalize_transform(st, v) ==
    IF v.k \in {"nan", "irr"} THEN v
    ELSE IF ~IsNum(v) THEN ErrV("TypeError")
    ELSE RDiv(RSub(v, st.low), RSub(st.high, st.low))

Normalize_inverse_transform(st, v) ==
    IF v.k \in {"nan", "irr"} THEN v
    ELSE IF ~IsNum(v) THEN ErrV("TypeError")
    ELSE LET y == IF st.unbounded THEN v ELSE NpClip(v, Num(0), Num(1))
             x == RAdd(st.low, RMul(y, RSub(st.high, st.low)))
             r == IF st.is_int THEN NpRound(x) ELSE x
         IN  IF st.is_int /\ st.ncat > 0 THEN NpClip(r, Num(0), Num(st.ncat - 1)) ELSE r

\* the one-hot row of a category: one cell per category, a single cell when
\* there are exactly two categories
OneHot(cats, i) ==
    IF Len(cats) = 2 THEN <<Num(i)>>
    ELSE [j \in 1..Len(cats) |-> IF j = i + 1 THEN Num(1) ELSE Num(0)]

CategoricalEncoder_transform(st, v) ==
    IF IndexOf(st.cats, v) < 0 THEN <<ErrV("KeyError")>>
    ELSE OneHot(st.cats, IndexOf(st.cats, v))

CategoricalEncoder_inverse_transform(st, row) ==
    IF \E i \in 1..Len(st.cats) : OneHot(st.cats, IndexOf(st.cats, st.cats[i])) = row
    THEN st.cats[CHOOSE i \in 1..Len(st.cats) :
                     /\ OneHot(st.cats, IndexOf(st.cats, st.cats[i])) = row
                     /\ \A h \in 1..(i - 1) :
                            OneHot(st.cats, IndexOf(st.cats, st.cats[h])) # row]
    ELSE ErrV("ValueError")

StringEncoder_transform(st, v) == PyStr(v)

StringEncoder_inverse_transform(st, v) ==
    IF \E i \in 1..Len(st.cats) : PyStr(st.cats[i]) = v
    THEN st.cats[CHOOSE i \in 1..Len(st.cats) : PyStr(st.cats[i]) = v]
    ELSE ErrV("ValueError")

LabelEncoder_transform(st, v) ==
    IF IndexOf(st.cats, v) < 0 THEN ErrV("KeyError") ELSE Num(IndexOf(st.cats, v))

LabelEncoder_inverse_transform(st, v) ==
    IF IsWhole(v) /\ v.n >= 0 /\ v.n < Len(st.cats) THEN st.cats[v.n + 1]
    ELSE ErrV("KeyError")

\* one stage applied to one row
StageTransform(st, row) ==
    CASE st.t = "Identity" -> row
      [] st.t = "LogN" -> <<LogN_transform(st, row[1])>>
      [] st.t = "Normalize" -> <<Normalize_transform(st, row[1])>>
      [] st.t = "CategoricalEncoder" -> CategoricalEncoder_transform(st, row[1])
      [] st.t = "StringEncoder" -> <<StringEncoder_transform(st, row[1])>>
      [] st.t = "LabelEncoder" -> <<LabelEncoder_transform(st, row[1])>>

StageInverse(st, row) ==
    CASE st.t = "Identity" -> row
      [] st.t = "LogN" -> <<LogN_inverse_transform(st, row[1])>>
      [] st.t = "Normalize" -> <<Normalize_inverse_transform(st, row[1])>>
      [] st.t = "CategoricalEncoder" -> <<CategoricalEncoder_inverse_transform(st, row)>>
      [] st.t = "StringEncoder" -> <<StringEncoder_inverse_transform(st, row[1])>>
      [] st.t = "LabelEncoder" -> <<LabelEncoder_inverse_transform(st, row[1])>>

\* a row threaded through the stages first to last, an error cell ending it
RECURSIVE RowForward(_, _, _)
RowForward(stages, i, row) ==
    IF i > Len(stages) \/ (\E j \in 1..Len(row) : IsErr(row[j])) THEN row
    ELSE RowForward(stages, i + 1, StageTransform(stages[i], row))

\* a row threaded through the inverses last to first
RECURSIVE RowBackward(_, _, _)
RowBackward(stages, i, row) ==
    IF i < 1 \/ (\E j \in 1..Len(row) : IsErr(row[j])) THEN row
    ELSE RowBackward(stages, i - 1, StageInverse(stages[i], row))

\* Pipeline.transform / Pipeline.inverse_transform over a whole array
Pipeline_transform(stages, rows) ==
    Checked([i \in 1..Len(rows) |-> RowForward(stages, 1, rows[i])])

Pipeline_inverse_transform(stages, rows) ==
    Checked([i \in 1..Len(rows) |-> RowBackward(stages, Len(stages), rows[i])])

(***************************************************************************)
(* Dimension objects.  One record shape serves the three variants; a field *)
(* a variant does not have holds NoneV / <<>>.  dtype is [form, name]:     *)
(* form "str" for a string such as 'int8', "type" for a class such as      *)
(* np.int8 or int, "obj" for any other object such as np.dtype('int8').    *)
(***************************************************************************)
NoneMode == "<None>"      \* transform=None, the default argument
NoDim == [id |-> 0, kind |-> "None", low |-> NoneV, high |-> NoneV, prior |-> "",
          base |-> 0, dtype |-> [form |-> "", name |-> ""], name |-> NoneV,
          categories |-> <<>>, transform_ |-> NoneMode, transformer |-> <<>>,
          rvs |-> [dist |-> "", a |-> NoneV, b |-> NoneV]]

DType(form, name) == [form |-> form, name |-> name]
FloatNames == {"float", "float16", "float32", "float64"}
IntNames == {"int", "int8", "int16", "int32", "int64",
             "uint8", "uint16", "uint32", "uint64"}

\* `"normalize" in transform`: substring test, over the mode strings of the model
HasNormalize(transform) == transform \in {"normalize", "normalize_unbounded"}

\* _uniform_inclusive(loc, scale), randint(low, high), rv_discrete over n indices
UniformInclusive(loc, scale) == [dist |-> "uniform_inclusive", a |-> loc, b |-> scale]
RandInt(low, high) == [dist |-> "randint", a |-> low, b |-> high]
RvDiscrete(n) == [dist |-> "rv_discrete", a |-> Num(0), b |-> Num(n)]

\* the outcome of a method that mutates a dimension: the object afterwards and
\* the exception raised ("" when it returned)
Done(obj) == [err |-> "", obj |-> obj]
Fail(e, obj) == [err |-> e, obj |-> obj]

\* A variant of Real.set_transformer that overwrites low and high with the
\* warped bounds when it normalizes.
Real_set_transformer_StoresWarpedBounds(d, transform) ==
    LET d1 == [d EXCEPT !.transform_ = transform]
        loglow == LogBase(d.base, d.low)
        loghigh == LogBase(d.base, d.high)
    IN  IF transform \notin {"normalize", "identity", "normalize_unbounded"}
        THEN Fail("ValueError", d1)
        ELSE IF HasNormalize(transform)
        THEN LET is_unbounded == transform = "normalize_unbounded"
             IN  Done([d1 EXCEPT
                    !.low = Num(0), !.high = Num(1),
                    !.rvs = UniformInclusive(Num(0), Num(1)),
                    !.transformer =
                        IF d.prior = "uniform"
                        THEN <<Identity, Normalize(d.low, d.high, FALSE, is_unbounded, 0)>>
                        ELSE <<LogN(d.base), Normalize(loglow, loghigh, FALSE, is_unbounded, 0)>>])
        ELSE IF d.prior = "uniform"
        THEN Done([d1 EXCEPT !.rvs = UniformInclusive(d.low, RSub(d.high, d.low)),
                             !.transformer = <<Identity>>])
        ELSE Done([d1 EXCEPT !.rvs = UniformInclusive(loglow, RSub(loghigh, loglow)),
                             !.transformer = <<LogN(d.base)>>])

Real_set_transformer(d, transform) ==
    LET d1 == [d EXCEPT !.transform_ = transform]
        loglow == LogBase(d.base, d.low)
        loghigh == LogBase(d.base, d.high)
    IN  IF transform \notin {"normalize", "identity", "normalize_unbounded"}
        THEN Fail("ValueError", d1)
        ELSE IF HasNormalize(transform)
        THEN LET is_unbounded == transform = "normalize_unbounded"
             IN  Done([d1 EXCEPT
                    !.rvs = UniformInclusive(Num(0), Num(1)),
                    !.transformer =
                        IF d.prior = "uniform"
                        THEN <<Identity, Normalize(d.low, d.high, FALSE, is_unbounded, 0)>>
                        ELSE <<LogN(d.base), Normalize(loglow, loghigh, FALSE, is_unbounded, 0)>>])
        ELSE IF d.prior = "uniform"
        THEN Done([d1 EXCEPT !.rvs = UniformInclusive(d.low, RSub(d.high, d.low)),
                             !.transformer = <<Identity>>])
        ELSE Done([d1 EXCEPT !.rvs = UniformInclusive(loglow, RSub(loghigh, loglow)),
                             !.transformer = <<LogN(d.base)>>])

Real_init(id, low, high, prior, base, transform, name, dtype) ==
    IF ~(IsNum(low) /\ IsNum(high)) THEN Fail("TypeError", NoDim)   \* high <= low
    ELSE IF RLe(high, low) THEN Fail("ValueError", NoDim)
    ELSE IF prior \notin {"uniform", "log-uniform"} THEN Fail("ValueError", NoDim)
    ELSE IF dtype.form = "str" /\ dtype.name \notin {"float", "float16", "float32", "float64"}
         THEN Fail("ValueError", NoDim)
    ELSE IF dtype.form = "type" /\ dtype.name \notin FloatNames
         THEN Fail("ValueError", NoDim)
    ELSE LET self == [NoDim EXCEPT !.id = id, !.kind = "Real", !.low = low, !.high = high,
                                   !.prior = prior, !.base = base, !.name = name,
                                   !.dtype = dtype, !.transform_ = transform]
             r == Real_set_transformer(self, IF transform = NoneMode THEN "identity"
                                             ELSE transform)
         IN  IF r.err = "" THEN r ELSE Fail(r.err, NoDim)

\* A variant of Integer.set_transformer that accepts Real's list of modes.
Integer_set_transformer_AcceptsUnbounded(d, transform) ==
    LET d1 == [d EXCEPT !.transform_ = transform]
        loglow == LogBase(d.base, d.low)
        loghigh == LogBase(d.base, d.high)
    IN  IF transform \notin {"normalize", "identity", "normalize_unbounded"}
        THEN Fail("ValueError", d1)
        ELSE IF transform = "normalize"
        THEN Done([d1 EXCEPT
                    !.rvs = UniformInclusive(Num(0), Num(1)),
                    !.transformer =
                        IF d.prior = "uniform"
                        THEN <<Identity, Normalize(d.low, d.high, TRUE, FALSE, 0)>>
                        ELSE <<LogN(d.base), Normalize(loglow, loghigh, FALSE, FALSE, 0)>>])
        ELSE IF d.prior = "uniform"
        THEN Done([d1 EXCEPT !.rvs = RandInt(d.low, RAdd(d.high, Num(1))),
                             !.transformer = <<Identity>>])
        ELSE Done([d1 EXCEPT !.rvs = UniformInclusive(loglow, RSub(loghigh, loglow)),
                             !.transformer = <<LogN(d.base)>>])

Integer_set_transformer(d, transform) ==
    LET d1 == [d EXCEPT !.transform_ = transform]
        loglow == LogBase(d.base, d.low)
        loghigh == LogBase(d.base, d.high)
    IN  IF transform \notin {"normalize", "identity"}
        THEN Fail("ValueError", d1)
        ELSE IF transform = "normalize"
        THEN Done([d1 EXCEPT
                    !.rvs = UniformInclusive(Num(0), Num(1)),
                    !.transformer =
                        IF d.prior = "uniform"
                        THEN <<Identity, Normalize(d.low, d.high, TRUE, FALSE, 0)>>
                        ELSE <<LogN(d.base), Normalize(loglow, loghigh, FALSE, FALSE, 0)>>])
        ELSE IF d.prior = "uniform"
        THEN Done([d1 EXCEPT !.rvs = RandInt(d.low, RAdd(d.high, Num(1))),
                             !.transformer = <<Identity>>])
        ELSE Done([d1 EXCEPT !.rvs = UniformInclusive(loglow, RSub(loghigh, loglow)),
                             !.transformer = <<LogN(d.base)>>])

Integer_init(id, low, high, prior, base, transform, name, dtype) ==
    IF ~(IsNum(low) /\ IsNum(high)) THEN Fail("TypeError", NoDim)   \* high <= low
    ELSE IF RLe(high, low) THEN Fail("ValueError", NoDim)
    ELSE IF prior \notin {"uniform", "log-uniform"} THEN Fail("ValueError", NoDim)
    ELSE IF dtype.form = "str" /\
            dtype.name \notin {"int", "int8", "int16", "int32", "int64",
                               "uint8", "uint16", "uint32", "uint64"}
         THEN Fail("ValueError", NoDim)
    ELSE IF dtype.form = "type" /\
            dtype.name \notin {"int", "int8", "int16", "int32", "int64",
                               "uint8", "uint16", "uint32", "uint64"}
         THEN Fail("ValueError", NoDim)
    ELSE LET self == [NoDim EXCEPT !.id = id, !.kind = "Integer", !.low = low, !.high = high,
                                   !.prior = prior, !.base = base, !.name = name,
                                   !.dtype = dtype, !.transform_ = transform]
             r == Integer_set_transformer(self, IF transform = NoneMode THEN "identity"
                                                ELSE transform)
         IN  IF r.err = "" THEN r ELSE Fail(r.err, NoDim)

\* A variant of Categorical.set_transformer that validates the mode before it
\* assigns transform_.
Categorical_set_transformer_ValidatesFirst(d, transform) ==
    LET d1 == [d EXCEPT !.transform_ = transform]
        n == Len(d.categories)
        t == IF transform = "onehot" THEN <<CategoricalEncoder(d.categories)>>
             ELSE IF transform = "string" THEN <<StringEncoder(d.categories)>>
             ELSE IF transform = "label" THEN <<LabelEncoder(d.categories)>>
             ELSE IF HasNormalize(transform)
                  THEN <<LabelEncoder(d.categories),
                         Normalize(Num(0), Num(n - 1), TRUE, FALSE, n)>>
             ELSE <<Identity>>
    IN  IF transform \notin {"identity", "onehot", "string", "normalize",
                             "normalize_unbounded", "label"}
        THEN Fail("ValueError", d)
        ELSE Done([d1 EXCEPT !.transformer = t,
                             !.rvs = IF HasNormalize(transform)
                                     THEN UniformInclusive(Num(0), Num(1))
                                     ELSE RvDiscrete(n)])

Categorical_set_transformer(d, transform) ==
    LET d1 == [d EXCEPT !.transform_ = transform]
        n == Len(d.categories)
        t == IF transform = "onehot" THEN <<CategoricalEncoder(d.categories)>>
             ELSE IF transform = "string" THEN <<StringEncoder(d.categories)>>
             ELSE IF transform = "label" THEN <<LabelEncoder(d.categories)>>
             ELSE IF HasNormalize(transform)
                  THEN <<LabelEncoder(d.categories),
                         Normalize(Num(0), Num(n - 1), TRUE, FALSE, n)>>
             ELSE <<Identity>>
    IN  IF transform \notin {"identity", "onehot", "string", "normalize",
                             "normalize_unbounded", "label"}
        THEN Fail("ValueError", d1)
        ELSE Done([d1 EXCEPT !.transformer = t,
                             !.rvs = IF HasNormalize(transform)
                                     THEN UniformInclusive(Num(0), Num(1))
                                     ELSE RvDiscrete(n)])

Categorical_init(id, categories, transform, name) ==
    IF Len(categories) = 0 THEN Fail("ZeroDivisionError", NoDim)
    ELSE LET t == IF transform = NoneMode THEN "onehot" ELSE transform
             self == [NoDim EXCEPT !.id = id, !.kind = "Categorical",
                                   !.categories = categories, !.name = name,
                                   !.prior = "None", !.transform_ = t]
             r == Categorical_set_transformer(self, t)
         IN  IF r.err = "" THEN r ELSE Fail(r.err, NoDim)

\* the variant's own set_transformer
Dim_set_transformer(d, transform) ==
    CASE d.kind = "Real" -> Real_set_transformer(d, transform)
      [] d.kind = "Integer" -> Integer_set_transformer(d, transform)
      [] d.kind = "Categorical" -> Categorical_set_transformer(d, transform)

(***************************************************************************)
(* check_dimension.  An element of a raw description is a value with its   *)
(* Python type: [ty, v], ty one of "int", "float", "str", "bool",          *)
(* "NoneType" (True is carried as the number 1, which it equals).  A       *)
(* description is [form, elems, obj]: form "seq" for a list or tuple of    *)
(* elems, "Dimension" for a Dimension object obj, "other" for anything     *)
(* else.                                                                   *)
(***************************************************************************)
Elem(ty, v) == [ty |-> ty, v |-> v]
Values(elems) == [i \in 1..Len(elems) |-> elems[i].v]

\* isinstance(d, (str, bool)) or isinstance(d, np.bool_)
IsStrOrBool(e) == e.ty \in {"str", "bool"}
\* isinstance(d, numbers.Integral) and isinstance(d, int): bool is a subclass of int
IsIntegral(e) == e.ty \in {"int", "bool"}
\* isinstance(d, numbers.Real) and isinstance(d, (float, int))
IsRealNumber(e) == e.ty \in {"int", "bool", "float"}

\* the outcome of check_dimension: the exception raised, the object returned and
\* the constructor the description was dispatched to ("" when to none)
Classified(cls, r) == [err |-> r.err, obj |-> r.obj, cls |-> cls]

\* Integer(*dimension, transform=transform) / Real(*dimension, transform=transform)
\* for a description of 2, 3 or 4 elements
CallNumeric(cls, elems, transform) ==
    LET v == Values(elems)
        prior == IF Len(v) >= 3 THEN v[3].s ELSE "uniform"
        base == IF Len(v) >= 4 THEN v[4].n ELSE 10
    IN  Classified(cls,
            IF cls = "Integer"
            THEN Integer_init(1, v[1], v[2], prior, base, transform, NoneV,
                              DType("type", "int64"))
            ELSE Real_init(1, v[1], v[2], prior, base, transform, NoneV,
                           DType("type", "float")))

CallCategorical(elems, transform) ==
    Classified("Categorical", Categorical_init(1, Values(elems), transform, NoneV))

IsPrior(e) == e.v \in {Str("uniform"), Str("log-uniform")}

\* A variant of the length-2 rule that tests for two integers first.
CheckLen2_IntegralFirst(e, transform) ==
    IF \A i \in 1..2 : IsIntegral(e[i]) THEN CallNumeric("Integer", e, transform)
    ELSE IF \E i \in 1..2 : IsStrOrBool(e[i]) THEN CallCategorical(e, transform)
    ELSE IF \E i \in 1..2 : IsRealNumber(e[i]) THEN CallNumeric("Real", e, transform)
    ELSE Classified("", Fail("ValueError", NoDim))

\* len(dimension) == 2
CheckLen2(e, transform) ==
    IF \E i \in 1..2 : IsStrOrBool(e[i]) THEN CallCategorical(e, transform)
    ELSE IF \A i \in 1..2 : IsIntegral(e[i]) THEN CallNumeric("Integer", e, transform)
    ELSE IF \E i \in 1..2 : IsRealNumber(e[i]) THEN CallNumeric("Real", e, transform)
    ELSE Classified("", Fail("ValueError", NoDim))

\* len(dimension) == 3
CheckLen3(e, transform) ==
    IF (\E i \in 1..2 : IsIntegral(e[i])) /\ IsPrior(e[3])
    THEN CallNumeric("Integer", e, transform)
    ELSE IF (\E i \in 1..2 : IsRealNumber(e[i])) /\ IsPrior(e[3])
    THEN CallNumeric("Real", e, transform)
    ELSE CallCategorical(e, transform)

\* A variant of the length-4 rule that takes either prior.
CheckLen4_AnyPrior(e, transform) ==
    IF Len(e) = 4 /\ (\E i \in 1..2 : IsIntegral(e[i]))
       /\ IsPrior(e[3]) /\ IsIntegral(e[4])
    THEN CallNumeric("Integer", e, transform)
    ELSE IF Len(e) = 4 /\ (\E i \in 1..2 : IsRealNumber(e[i]))
            /\ IsPrior(e[3]) /\ IsIntegral(e[4])
    THEN CallNumeric("Real", e, transform)
    ELSE CallCategorical(e, transform)

\* len(dimension) == 4 and the len(dimension) > 3 rule it falls through to
CheckLen4(e, transform) ==
    IF Len(e) = 4 /\ (\E i \in 1..2 : IsIntegral(e[i]))
       /\ e[3].v = Str("log-uniform") /\ IsIntegral(e[4])
    THEN CallNumeric("Integer", e, transform)
    ELSE IF Len(e) = 4 /\ (\E i \in 1..2 : IsRealNumber(e[i]))
            /\ e[3].v = Str("log-uniform") /\ IsIntegral(e[4])
    THEN CallNumeric("Real", e, transform)
    ELSE CallCategorical(e, transform)

check_dimension(dimension, transform) ==
    LET e == dimension.elems
    IN  IF dimension.form = "Dimension" THEN Classified("", Done(dimension.obj))
        ELSE IF dimension.form # "seq" THEN Classified("", Fail("ValueError", NoDim))
        ELSE IF Len(e) = 1 THEN CallCategorical(e, transform)
        ELSE IF Len(e) = 2 THEN CheckLen2(e, transform)
        ELSE IF Len(e) = 3 THEN CheckLen3(e, transform)
        ELSE IF Len(e) > 3 THEN CheckLen4(e, transform)
        ELSE Classified("", Fail("ValueError", NoDim))

(***************************************************************************)
(* Dimension methods.                                                      *)
(***************************************************************************)
\* a one-dimensional list or array as an array of one-cell rows
AsRows(xs) == [i \in 1..Len(xs) |-> <<xs[i]>>]
AsList(rows) == [i \in 1..Len(rows) |-> rows[i][1]]

Dimension_transform(d, X) == Pipeline_transform(d.transformer, AsRows(X))
Dimension_inverse_transform(d, Xt) == Pipeline_inverse_transform(d.transformer, Xt)

\* numpy.clip on one cell: a string cell has no clip loop
ClipCell(v, low, high) ==
    IF v.k \in {"nan", "irr"} THEN v
    ELSE IF ~IsNum(v) THEN ErrV("TypeError")
    ELSE NpClip(v, low, high)

RoundCell(v) == IF IsNum(v) THEN NpRound(v) ELSE v

\* two's-complement wrap of an integer into `bits` bits
Wrap(i, bits, signed) ==
    LET m == Pow(2, bits)
        r == i % m
    IN  IF signed /\ r >= m \div 2 THEN r - m ELSE r

\* ndarray.astype(dtype) on one cell: a floating dtype keeps the number (the
\* model's numbers are exact in float64), an integer dtype truncates toward
\* zero and wraps to its width (32 and 64 bits hold every number of the model)
AsType(v, dtype) ==
    IF ~IsNum(v) THEN v
    ELSE IF dtype.name \in FloatNames THEN v
    ELSE LET t == IF v.n >= 0 THEN v.n \div v.d ELSE -((-v.n) \div v.d)
         IN  CASE dtype.name = "int8" -> Num(Wrap(t, 8, TRUE))
               [] dtype.name = "int16" -> Num(Wrap(t, 16, TRUE))
               [] dtype.name = "uint8" -> Num(Wrap(t, 8, FALSE))
               [] dtype.name = "uint16" -> Num(Wrap(t, 16, FALSE))
               [] OTHER -> Num(t)

MapCells(rows, F(_)) == [i \in 1..Len(rows) |-> [j \in 1..Len(rows[i]) |-> F(rows[i][j])]]

\* A variant of Real.inverse_transform that leaves the result unclipped in
\* normalize_unbounded mode.
Real_inverse_transform_UnclippedWhenUnbounded(d, Xt) ==
    LET inv == Dimension_inverse_transform(d, Xt)
        Post(v) == AsType(IF d.transform_ = "normalize_unbounded" THEN v
                          ELSE ClipCell(v, d.low, d.high), d.dtype)
    IN  IF inv.err # "" THEN inv ELSE Checked(MapCells(inv.rows, Post))

Real_inverse_transform(d, Xt) ==
    LET inv == Dimension_inverse_transform(d, Xt)
        Post(v) == AsType(ClipCell(v, d.low, d.high), d.dtype)
    IN  IF inv.err # "" THEN inv ELSE Checked(MapCells(inv.rows, Post))

\* A variant of Integer.inverse_transform that treats high as exclusive, as
\* randint does.
Integer_inverse_transform_ExclusiveHigh(d, Xt) ==
    LET inv == Dimension_inverse_transform(d, Xt)
        Post(v) == AsType(RoundCell(ClipCell(v, d.low, RSub(d.high, Num(1)))), d.dtype)
    IN  IF inv.err # "" THEN inv ELSE Checked(MapCells(inv.rows, Post))

\* A variant of Integer.inverse_transform that rounds and casts without clipping.
Integer_inverse_transform_NoClip(d, Xt) ==
    LET inv == Dimension_inverse_transform(d, Xt)
        Post(v) == AsType(RoundCell(v), d.dtype)
    IN  IF inv.err # "" THEN inv ELSE Checked(MapCells(inv.rows, Post))

Integer_inverse_transform(d, Xt) ==
    LET inv == Dimension_inverse_transform(d, Xt)
        Post(v) == AsType(RoundCell(ClipCell(v, d.low, d.high)), d.dtype)
    IN  IF inv.err # "" THEN inv ELSE Checked(MapCells(inv.rows, Post))

Categorical_inverse_transform(d, Xt) == Dimension_inverse_transform(d, Xt)

Dim_inverse_transform(d, Xt) ==
    CASE d.kind = "Real" -> Real_inverse_transform(d, Xt)
      [] d.kind = "Integer" -> Integer_inverse_transform(d, Xt)
      [] d.kind = "Categorical" -> Categorical_inverse_transform(d, Xt)

\* A variant of Categorical.transformed_size without the two-category collapse.
Categorical_transformed_size_NoCollapse(d) ==
    IF d.transform_ = "onehot" THEN Len(d.categories) ELSE 1

Categorical_transformed_size(d) ==
    IF d.transform_ = "onehot"
    THEN IF Len(d.categories) # 2 THEN Len(d.categories) ELSE 1
    ELSE 1

Dim_transformed_size(d) ==
    IF d.kind = "Categorical" THEN Categorical_transformed_size(d) ELSE 1

\* Dimension.size
Dimension_size(d) == 1

\* bounds: the pair (low, high), the tuple of categories
Real_bounds(d) == <<d.low, d.high>>
Integer_bounds(d) == <<d.low, d.high>>
Categorical_bounds(d) == d.categories

Dim_bounds(d) ==
    CASE d.kind = "Real" -> Real_bounds(d)
      [] d.kind = "Integer" -> Integer_bounds(d)
      [] d.kind = "Categorical" -> Categorical_bounds(d)

\* np.log10
Log10(x) == LogBase(10, x)

\* transformed_bounds: one pair, or a list of pairs for a one-hot block
Real_transformed_bounds(d) ==
    IF HasNormalize(d.transform_) THEN <<Num(0), Num(1)>>
    ELSE IF d.prior = "uniform" THEN <<d.low, d.high>>
    ELSE <<Log10(d.low), Log10(d.high)>>

Integer_transformed_bounds(d) ==
    IF d.transform_ = "normalize" THEN <<Num(0), Num(1)>>
    ELSE <<d.low, d.high>>

Categorical_transformed_bounds(d) ==
    IF Categorical_transformed_size(d) = 1
    THEN IF d.transform_ = "label" THEN <<Num(0), Num(Len(d.categories) - 1)>>
         ELSE <<Num(0), Num(1)>>
    ELSE [i \in 1..Categorical_transformed_size(d) |-> <<Num(0), Num(1)>>]

Dim_transformed_bounds(d) ==
    CASE d.kind = "Real" -> Real_transformed_bounds(d)
      [] d.kind = "Integer" -> Integer_transformed_bounds(d)
      [] d.kind = "Categorical" -> Categorical_transformed_bounds(d)

Real_is_constant(d) == d.low = d.high
Integer_is_constant(d) == d.low = d.high
Categorical_is_constant(d) == Len(d.categories) <= 1

Dim_is_constant(d) ==
    CASE d.kind = "Real" -> Real_is_constant(d)
      [] d.kind = "Integer" -> Integer_is_constant(d)
      [] d.kind = "Categorical" -> Categorical_is_constant(d)

\* point in dimension
Real_contains(d, point) == IsNum(point) /\ RLe(d.low, point) /\ RLe(point, d.high)
Categorical_contains(d, point) == \E i \in 1..Len(d.categories) : d.categories[i] = point
Dim_contains(d, point) ==
    IF d.kind = "Categorical" THEN Categorical_contains(d, point) ELSE Real_contains(d, point)

\* the outcome of a method that returns a value: the exception raised ("" when
\* it returned) and the value
Ret(v) == [err |-> "", val |-> v]
Exc(e) == [err |-> e, val |-> NoneV]

RAbs(a) == IF a.n < 0 THEN Rat(-a.n, a.d) ELSE a

\* A variant of Real.distance that tests only the first operand for membership.
Real_distance_ChecksFirstOnly(d, a, b) ==
    IF ~Real_contains(d, a) THEN Exc("RuntimeError") ELSE Ret(RAbs(RSub(a, b)))

Real_distance(d, a, b) ==
    IF ~(Real_contains(d, a) /\ Real_contains(d, b)) THEN Exc("RuntimeError")
    ELSE Ret(RAbs(RSub(a, b)))

Integer_distance(d, a, b) ==
    IF ~(Real_contains(d, a) /\ Real_contains(d, b)) THEN Exc("RuntimeError")
    ELSE Ret(RAbs(RSub(a, b)))

\* A variant of Categorical.distance that returns the position difference.
Categorical_distance_ByPosition(d, a, b) ==
    IF ~(Categorical_contains(d, a) /\ Categorical_contains(d, b)) THEN Exc("RuntimeError")
    ELSE Ret(Num(Abs(IndexOf(d.categories, a) - IndexOf(d.categories, b))))

Categorical_distance(d, a, b) ==
    IF ~(Categorical_contains(d, a) /\ Categorical_contains(d, b)) THEN Exc("RuntimeError")
    ELSE Ret(IF a # b THEN Num(1) ELSE Num(0))

Dim_distance(d, a, b) ==
    CASE d.kind = "Real" -> Real_distance(d, a, b)
      [] d.kind = "Integer" -> Integer_distance(d, a, b)
      [] d.kind = "Categorical" -> Categorical_distance(d, a, b)

\* Categorical.rvs(n_samples): choices is what self._rvs.rvs(size=n_samples)
\* drew, a sequence of n_samples draws (of one draw, a scalar, when n_samples
\* is None); rv_discrete draws integers, _uniform_inclusive draws floats
Categorical_rvs(d, n_samples, choices) ==
    IF n_samples = NoneV /\ d.rvs.dist = "rv_discrete"
    THEN Ret(<<d.categories[choices[1].n + 1]>>)
    ELSE IF d.transform_ = "normalize"
    THEN LET r == Categorical_inverse_transform(d, AsRows(choices))
         IN  IF r.err # "" THEN Exc(r.err) ELSE Ret(AsList(r.rows))
    ELSE IF n_samples = NoneV THEN Exc("TypeError")            \* a float is not iterable
    ELSE IF d.rvs.dist # "rv_discrete" THEN Exc("TypeError")   \* a float indexes a tuple
    ELSE Ret([i \in 1..Len(choices) |-> d.categories[choices[i].n + 1]])

(***************************************************************************)
(* Space methods.                                                          *)
(***************************************************************************)
Space_n_dims(dims) == Len(dims)

RECURSIVE SumSizes(_, _)
SumSizes(dims, j) == IF j = 0 THEN 0 ELSE SumSizes(dims, j - 1) + Dim_transformed_size(dims[j])

Space_transformed_n_dims(dims) == SumSizes(dims, Len(dims))

\* Space.bounds: the loop over the dimensions from j on, b the list so far
RECURSIVE BoundsLoop(_, _, _)
BoundsLoop(dims, j, b) ==
    IF j > Len(dims) THEN b
    ELSE IF Dimension_size(dims[j]) = 1
         THEN BoundsLoop(dims, j + 1, Append(b, Dim_bounds(dims[j])))
         ELSE BoundsLoop(dims, j + 1, b \o Dim_bounds(dims[j]))

Space_bounds(dims) == BoundsLoop(dims, 1, <<>>)

\* Space.transformed_bounds: the same loop over transformed_size and
\* transformed_bounds
RECURSIVE TransformedBoundsLoop_AlwaysAppends(_, _, _)
\* A variant of the loop that appends a one-hot block's list as one entry.
TransformedBoundsLoop_AlwaysAppends(dims, j, b) ==
    IF j > Len(dims) THEN b
    ELSE TransformedBoundsLoop_AlwaysAppends(dims, j + 1,
                                             Append(b, Dim_transformed_bounds(dims[j])))

RECURSIVE TransformedBoundsLoop(_, _, _)
TransformedBoundsLoop(dims, j, b) ==
    IF j > Len(dims) THEN b
    ELSE IF Dim_transformed_size(dims[j]) = 1
         THEN TransformedBoundsLoop(dims, j + 1, Append(b, Dim_transformed_bounds(dims[j])))
         ELSE TransformedBoundsLoop(dims, j + 1, b \o Dim_transformed_bounds(dims[j]))

Space_transformed_bounds(dims) == TransformedBoundsLoop(dims, 1, <<>>)

\* numpy.hstack / numpy.asarray give the matrix one dtype: when any cell is a
\* str, every number is rendered as a str
Coerce(rows) ==
    IF \E i \in 1..Len(rows) : \E j \in 1..Len(rows[i]) : rows[i][j].k \in {"str", "numstr"}
    THEN MapCells(rows, PyStr)
    ELSE rows

RECURSIVE HStack(_, _, _)
\* row i of the blocks j..Len(blocks) side by side
HStack(blocks, i, j) ==
    IF j > Len(blocks) THEN <<>> ELSE blocks[j][i] \o HStack(blocks, i, j + 1)

Space_transform(dims, X) ==
    LET columns == [j \in 1..Space_n_dims(dims) |->
                        Dimension_transform(dims[j], [i \in 1..Len(X) |-> X[i][j]])]
    IN  IF \E j \in 1..Len(columns) : columns[j].err # ""
        THEN Raise(columns[CHOOSE j \in 1..Len(columns) :
                              /\ columns[j].err # ""
                              /\ \A h \in 1..(j - 1) : columns[h].err = ""].err)
        ELSE Ok(Coerce([i \in 1..Len(X) |->
                          HStack([j \in 1..Len(columns) |-> Coerce(columns[j].rows)], i, 1)]))

\* Xt[:, start] (offset = 1) and Xt[:, start:start + offset]
Slice(Xt, start, offset) ==
    [i \in 1..Len(Xt) |->
        IF offset = 1
        THEN IF start < Len(Xt[i]) THEN <<Xt[i][start + 1]>> ELSE <<ErrV("IndexError")>>
        ELSE SubSeq(Xt[i], start + 1,
                    IF start + offset < Len(Xt[i]) THEN start + offset ELSE Len(Xt[i]))]

\* the running `start` before dimension j
RECURSIVE StartOf(_, _)
StartOf(dims, j) == IF j = 1 THEN 0 ELSE StartOf(dims, j - 1) + Dim_transformed_size(dims[j - 1])

\* _transpose_list_array: columns of cells to rows of points
Transpose(columns) ==
    [i \in 1..Len(columns[1]) |-> [j \in 1..Len(columns) |-> columns[j][i]]]

Space_inverse_transform(dims, Xt) ==
    LET columns == [j \in 1..Space_n_dims(dims) |->
                        LET blk == Slice(Xt, StartOf(dims, j), Dim_transformed_size(dims[j]))
                        IN  IF FirstErr(blk) # "" THEN Raise(FirstErr(blk))
                            ELSE Dim_inverse_transform(dims[j], blk)]
    IN  IF \E j \in 1..Len(columns) : columns[j].err # ""
        THEN Raise(columns[CHOOSE j \in 1..Len(columns) :
                              /\ columns[j].err # ""
                              /\ \A h \in 1..(j - 1) : columns[h].err = ""].err)
        ELSE Ok(Transpose([j \in 1..Len(columns) |-> AsList(columns[j].rows)]))

\* the outcome of Space.set_transformer / set_transformer_by_type: the dimension
\* list afterwards and the exception raised ("" when it returned)
RECURSIVE SetLoop_ContinuesPastFailure(_, _, _, _)
\* A variant of the loop that goes on to the remaining dimensions after one
\* has rejected its mode, and raises at the end.
SetLoop_ContinuesPastFailure(dims, is_list, transform, j) ==
    IF j > Len(dims) THEN Done(dims)
    ELSE IF is_list /\ j > Len(transform) THEN Fail("IndexError", dims)
    ELSE LET r == Dim_set_transformer(dims[j], IF is_list THEN transform[j] ELSE transform[1])
             rest == SetLoop_ContinuesPastFailure([dims EXCEPT ![j] = r.obj], is_list,
                                                  transform, j + 1)
         IN  IF r.err # "" THEN Fail(r.err, rest.obj) ELSE rest

RECURSIVE SetLoop(_, _, _, _)
\* the loop body from dimension j on; `transform` is <<mode>> for a string and the
\* list itself for a list
SetLoop(dims, is_list, transform, j) ==
    IF j > Len(dims) THEN Done(dims)
    ELSE IF is_list /\ j > Len(transform) THEN Fail("IndexError", dims)
    ELSE LET r == Dim_set_transformer(dims[j], IF is_list THEN transform[j] ELSE transform[1])
         IN  IF r.err # "" THEN Fail(r.err, [dims EXCEPT ![j] = r.obj])
             ELSE SetLoop([dims EXCEPT ![j] = r.obj], is_list, transform, j + 1)

Space_set_transformer(dims, is_list, transform) == SetLoop(dims, is_list, transform, 1)

\* isinstance(dim, dim_type): Real, Integer and Categorical derive from Dimension
IsInstance(d, dim_type) == dim_type = "Dimension" \/ d.kind = dim_type

RECURSIVE ByTypeLoop(_, _, _, _)
ByTypeLoop(dims, transform, dim_type, j) ==
    IF j > Len(dims) THEN Done(dims)
    ELSE IF ~IsInstance(dims[j], dim_type) THEN ByTypeLoop(dims, transform, dim_type, j + 1)
    ELSE LET r == Dim_set_transformer(dims[j], transform)
         IN  IF r.err # "" THEN Fail(r.err, [dims EXCEPT ![j] = r.obj])
             ELSE ByTypeLoop([dims EXCEPT ![j] = r.obj], transform, dim_type, j + 1)

Space_set_transformer_by_type(dims, transform, dim_type) ==
    ByTypeLoop(dims, transform, dim_type, 1)

\* Space.__getitem__'s helper _get: the loop over the dimensions from `index` on
RECURSIVE GetLoop_LastMatch(_, _, _)
\* A variant of _get that keeps searching after a match and returns the last one.
GetLoop_LastMatch(dims, dimension_name, index) ==
    IF index >= Len(dims) THEN <<NoneV, NoDim>>
    ELSE LET rest == GetLoop_LastMatch(dims, dimension_name, index + 1)
         IN  IF rest[1] # NoneV THEN rest
             ELSE IF dimension_name = dims[index + 1].name \/ dimension_name = Num(index)
             THEN <<Num(index), dims[index + 1]>>
             ELSE rest

RECURSIVE GetLoop(_, _, _)
GetLoop(dims, dimension_name, index) ==
    IF index >= Len(dims) THEN <<NoneV, NoDim>>
    ELSE IF dimension_name = dims[index + 1].name THEN <<Num(index), dims[index + 1]>>
    ELSE IF dimension_name = Num(index) THEN <<Num(index), dims[index + 1]>>
    ELSE GetLoop(dims, dimension_name, index + 1)

Space_get(dims, dimension_name) == GetLoop(dims, dimension_name, 0)

\* Space.__getitem__: one pair for a str or int key, a list of pairs for a list
\* or tuple, ValueError for any other key
Space_getitem(dims, is_list, keys) ==
    IF is_list THEN [err |-> "", val |-> [i \in 1..Len(keys) |-> Space_get(dims, keys[i])]]
    ELSE IF keys[1].k \in {"str", "num"} /\ (keys[1].k = "num" => IsWhole(keys[1]))
    THEN [err |-> "", val |-> Space_get(dims, keys[1])]
    ELSE [err |-> "ValueError", val |-> <<>>]

RECURSIVE DistanceLoop(_, _, _, _, _)
\* Space.distance's loop over zip(point_a, point_b, dimensions) from position j
\* on, `distance` being the running sum
DistanceLoop(dims, point_a, point_b, j, distance) ==
    IF j > Len(dims) \/ j > Len(point_a) \/ j > Len(point_b) THEN Ret(distance)
    ELSE LET r == Dim_distance(dims[j], point_a[j], point_b[j])
         IN  IF r.err # "" THEN r
             ELSE DistanceLoop(dims, point_a, point_b, j + 1, RAdd(distance, r.val))

Space_distance(dims, point_a, point_b) == DistanceLoop(dims, point_a, point_b, 1, Num(0))

\* Space.__contains__: the loop over zip(point, self.dimensions) from j on;
\* zip ends at the shorter of the two
RECURSIVE ContainsLoop(_, _, _)
ContainsLoop(dims, point, j) ==
    IF j > Len(point) \/ j > Len(dims) THEN TRUE
    ELSE IF ~Dim_contains(dims[j], point[j]) THEN FALSE
    ELSE ContainsLoop(dims, point, j + 1)

\* A variant of Space.__contains__ that refuses a point with fewer coordinates
\* than the Space has dimensions.
Space_contains_RequiresEveryCoordinate(dims, point) ==
    Len(point) >= Len(dims) /\ ContainsLoop(dims, point, 1)

Space_contains(dims, point) == ContainsLoop(dims, point, 1)

(***************************************************************************)
(* The inputs of the model.                                                *)
(***************************************************************************)
Modes == {"identity", "normalize", "normalize_unbounded", "onehot", "string", "label",
          "bogus"}
\* the modes the Space-level calls are made with
SpaceModes == {"identity", "normalize", "normalize_unbounded", "onehot", "bogus"}
DimTypes == {"Real", "Integer", "Categorical", "Dimension"}
CatPool == <<Str("a"), Str("b"), Str("c"), Str("d")>>
Cats(n) == SubSeq(CatPool, 1, n)

\* the points of a dimension the model draws coordinates from
PointsOf(d) ==
    IF d.kind = "Categorical" THEN {d.categories[i] : i \in 1..Len(d.categories)}
    ELSE LET whole == {Num(i) : i \in d.low.n..d.high.n}
             all == IF d.kind = "Integer" THEN whole
                    ELSE whole \cup {RDiv(RAdd(d.low, d.high), Num(2))}
         IN  IF d.prior = "uniform" THEN all
             ELSE {v \in all : LogBase(d.base, v).k = "num"}

\* the dimension objects a Space of the model is built from, by position
DimChoices(id) ==
    { r.obj : r \in
        ({Integer_init(id, Num(0), Num(h), "uniform", 10, NoneMode, Str("x"),
                       DType("type", "int64")) : h \in 2..MaxHigh}
         \cup {Real_init(id, Num(0), Num(MaxHigh), "uniform", 10, NoneMode, Str("y"),
                         DType("type", "float"))}
         \cup {Categorical_init(id, Cats(n), NoneMode, NoneV) : n \in 1..MaxCats}) }

Spaces ==
    UNION { {dims \in [1..n -> UNION {DimChoices(j) : j \in 1..n}] :
                \A j \in 1..n : dims[j].id = j} : n \in 1..MaxDims }

\* aux holds what the transformer pipeline alone returned, before the
\* dimension's own post-processing
NoOp == [op |-> "", j |-> 0, arg |-> <<>>, err |-> "", val |-> <<>>, aux |-> <<>>]

(***************************************************************************)
(* The configuration machine: a Space and the set_transformer family.      *)
(***************************************************************************)
Init ==
    /\ dimensions \in Spaces
    /\ dims0 = dimensions
    /\ out = NoOp
    /\ clean = TRUE

\* dimensions[j].set_transformer(mode)
DimSetTransformer ==
    \E j \in 1..Len(dimensions), mode \in SpaceModes :
        LET r == Dim_set_transformer(dimensions[j], mode)
        IN  /\ dimensions' = [dimensions EXCEPT ![j] = r.obj]
            /\ out' = [NoOp EXCEPT !.op = "Dimension.set_transformer", !.j = j,
                                   !.arg = <<mode>>, !.err = r.err]
            /\ clean' = (clean /\ r.err = "")
            /\ UNCHANGED dims0

\* space.set_transformer(mode) with a string
SpaceSetTransformer ==
    \E mode \in SpaceModes :
        LET r == Space_set_transformer(dimensions, FALSE, <<mode>>)
        IN  /\ dimensions' = r.obj
            /\ out' = [NoOp EXCEPT !.op = "Space.set_transformer", !.arg = <<mode>>,
                                   !.err = r.err]
            /\ clean' = (clean /\ r.err = "")
            /\ UNCHANGED dims0

\* space.set_transformer(modes) with a list
SpaceSetTransformerList ==
    \E n \in 1..MaxDims : \E modes \in [1..n -> SpaceModes] :
        LET r == Space_set_transformer(dimensions, TRUE, modes)
        IN  /\ dimensions' = r.obj
            /\ out' = [NoOp EXCEPT !.op = "Space.set_transformer[list]",
                                   !.arg = modes, !.err = r.err]
            /\ clean' = (clean /\ r.err = "")
            /\ UNCHANGED dims0

\* space.set_transformer_by_type(mode, dim_type)
SpaceSetTransformerByType ==
    \E mode \in SpaceModes, dim_type \in DimTypes :
        LET r == Space_set_transformer_by_type(dimensions, mode, dim_type)
        IN  /\ dimensions' = r.obj
            /\ out' = [NoOp EXCEPT !.op = "Space.set_transformer_by_type",
                                   !.arg = <<mode, dim_type>>, !.err = r.err]
            /\ clean' = (clean /\ r.err = "")
            /\ UNCHANGED dims0

Next ==
    \/ DimSetTransformer
    \/ SpaceSetTransformer
    \/ SpaceSetTransformerList
    \/ SpaceSetTransformerByType

Spec == Init /\ [][Next]_vars

(***************************************************************************)
(* The single-dimension machine: a dimension is constructed from raw       *)
(* arguments (or the constructor raises and there is no object), then      *)
(* reconfigured, and its methods are applied.                              *)
(***************************************************************************)
\* float64 rounding: a quotient computed by Normalize is the double nearest the
\* exact value, so a warped cell may differ from the exact quotient by a
\* rounding error, far smaller than half a grid step
FloatEps == Rat(1, 1000)

Lows == {Num(0), Num(1)}
Highs == {Num(h) : h \in 0..MaxHigh} \cup {Num(Pow(2, e)) : e \in 1..MaxExp}
PriorArgs == {<<"uniform", 10>>, <<"log-uniform", 2>>, <<"bogus", 10>>}
TransformArgs == {NoneMode, "normalize", "onehot"}
RealDTypes == {DType("type", "float"), DType("str", "float64"), DType("str", "int8"),
               DType("type", "int64"), DType("obj", "int32")}
IntegerDTypes == {DType("type", "int64"), DType("str", "int"), DType("type", "int8"),
                  DType("str", "float"), DType("type", "float"), DType("obj", "float64")}
CategoryLists ==
    {Cats(n) : n \in 1..MaxCats} \cup {<<Str("a"), Str("a")>>, <<Str("a"), Str("b"), Str("a")>>}
\* warped values handed to inverse_transform: in range, out of range, halves
WarpedVals == {Rat(i, 4) : i \in -4..(4 * MaxHigh + 4)}

\* constructor arguments <<low, high, <<prior, base>>, transform, dtype>>: every
\* combination of bounds, prior and transform with the default dtype, and every
\* dtype with the default of the rest
RealArgs ==
    {<<l, h, pb, t, DType("type", "float")>> :
        l \in Lows, h \in Highs, pb \in PriorArgs, t \in TransformArgs}
    \cup {<<Num(0), Num(MaxHigh), <<"uniform", 10>>, NoneMode, dt>> : dt \in RealDTypes}
IntegerArgs ==
    {<<l, h, pb, t, DType("type", "int64")>> :
        l \in Lows, h \in Highs, pb \in PriorArgs, t \in TransformArgs}
    \cup {<<Num(0), Num(MaxHigh), <<"uniform", 10>>, NoneMode, dt>> : dt \in IntegerDTypes}

\* the bounds of a log-uniform dimension have logarithms the model can name
Nameable(low, high, pb) ==
    pb[1] = "log-uniform" => LogBase(pb[2], low).k = "num" /\ LogBase(pb[2], high).k = "num"

InitDim ==
    /\ dimensions = <<>>
    /\ dims0 = <<>>
    /\ out = NoOp
    /\ clean = TRUE

\* Real(low, high, prior, base, transform, dtype=dtype)
ConstructReal ==
    \E a \in RealArgs :
        LET low == a[1]
            high == a[2]
            pb == a[3]
            transform == a[4]
            dtype == a[5]
            r == Real_init(1, low, high, pb[1], pb[2], transform, NoneV, dtype)
        IN  /\ out.op = "" /\ dimensions = <<>>
            /\ Nameable(low, high, pb)
            /\ dimensions' = IF r.err = "" THEN <<r.obj>> ELSE <<>>
            /\ dims0' = dimensions'
            /\ out' = [NoOp EXCEPT !.op = "Real", !.err = r.err,
                                   !.arg = <<low, high, pb[1], transform, dtype>>]
            /\ UNCHANGED clean

\* Integer(low, high, prior, base, transform, dtype=dtype)
ConstructInteger ==
    \E a \in IntegerArgs :
        LET low == a[1]
            high == a[2]
            pb == a[3]
            transform == a[4]
            dtype == a[5]
            r == Integer_init(1, low, high, pb[1], pb[2], transform, NoneV, dtype)
        IN  /\ out.op = "" /\ dimensions = <<>>
            /\ Nameable(low, high, pb)
            /\ dimensions' = IF r.err = "" THEN <<r.obj>> ELSE <<>>
            /\ dims0' = dimensions'
            /\ out' = [NoOp EXCEPT !.op = "Integer", !.err = r.err,
                                   !.arg = <<low, high, pb[1], transform, dtype>>]
            /\ UNCHANGED clean

\* Categorical(categories, transform=transform)
ConstructCategorical ==
    \E categories \in CategoryLists, transform \in Modes \cup {NoneMode} :
        LET r == Categorical_init(1, categories, transform, NoneV)
        IN  /\ out.op = "" /\ dimensions = <<>>
            /\ dimensions' = IF r.err = "" THEN <<r.obj>> ELSE <<>>
            /\ dims0' = dimensions'
            /\ out' = [NoOp EXCEPT !.op = "Categorical", !.err = r.err,
                                   !.arg = <<categories, transform>>]
            /\ UNCHANGED clean

\* dim.set_transformer(mode)
SetTransformer ==
    /\ Len(dimensions) = 1
    /\ \E mode \in Modes :
        LET r == Dim_set_transformer(dimensions[1], mode)
        IN  /\ dimensions' = <<r.obj>>
            /\ out' = [NoOp EXCEPT !.op = "set_transformer", !.arg = <<mode>>, !.err = r.err]
            /\ clean' = (clean /\ r.err = "")
            /\ UNCHANGED dims0

HasStage(d, t) == \E i \in 1..Len(d.transformer) : d.transformer[i].t = t
NoIrr(rows) == \A i \in 1..Len(rows) : \A j \in 1..Len(rows[i]) : rows[i][j].k # "irr"

\* dim.transform([v]) for a point v of the dimension
DimTransform ==
    /\ Len(dimensions) = 1
    /\ \E v \in PointsOf(dimensions[1]), e \in {-1, 0, 1} :
        LET d == dimensions[1]
            r == Dimension_transform(d, <<v>>)
            Off(c) == IF IsNum(c) THEN RAdd(c, RMul(Num(e), FloatEps)) ELSE c
        IN  /\ e # 0 => HasStage(d, "Normalize") /\ r.err = ""
            /\ NoIrr(r.rows)
            /\ out' = [NoOp EXCEPT !.op = "transform", !.arg = <<v>>, !.err = r.err,
                                   !.val = IF e = 0 THEN r.rows ELSE MapCells(r.rows, Off)]
            /\ UNCHANGED <<dimensions, dims0, clean>>

\* dim.inverse_transform(Xt) of the array the last transform returned
DimRoundTrip ==
    /\ Len(dimensions) = 1
    /\ out.op = "transform" /\ out.err = ""
    /\ LET r == Dim_inverse_transform(dimensions[1], out.val)
       IN
        /\ NoIrr(r.rows)
        /\ out' = [NoOp EXCEPT !.op = "roundtrip", !.arg = out.arg, !.err = r.err,
                               !.val = r.rows]
        /\ UNCHANGED <<dimensions, dims0, clean>>

\* dim.inverse_transform([y]) for a warped value y, in range or not
DimInverseTransform ==
    /\ Len(dimensions) = 1
    /\ \E y \in WarpedVals :
        LET d == dimensions[1]
            r == Dim_inverse_transform(d, <<<<y>>>>)
            raw == Dimension_inverse_transform(d, <<<<y>>>>)
        IN  /\ d.kind \in {"Real", "Integer"}
            /\ NoIrr(r.rows) /\ NoIrr(raw.rows)
            /\ out' = [NoOp EXCEPT !.op = "inverse_transform", !.arg = <<y>>,
                                   !.err = r.err, !.val = r.rows, !.aux = raw.rows]
            /\ UNCHANGED <<dimensions, dims0, clean>>

\* what a frozen distribution can draw: every index of rv_discrete, the ends
\* and two inner points of _uniform_inclusive's interval
DrawVals(rvs) ==
    IF rvs.dist = "rv_discrete" THEN {Num(i) : i \in 0..(rvs.b.n - 1)}
    ELSE {RAdd(rvs.a, RMul(Rat(i, 4), rvs.b)) : i \in {0, 1, 2, 4}}
Draws(rvs, n) == [1..n -> DrawVals(rvs)]

\* dim.rvs(n_samples=n_samples) of a Categorical; the draws and the returned
\* list are recorded as arrays of one-cell rows
CategoricalRvs ==
    /\ Len(dimensions) = 1
    /\ dimensions[1].kind = "Categorical"
    /\ \E n_samples \in {NoneV} \cup {Num(n) : n \in 1..MaxSamples} :
        \E choices \in Draws(dimensions[1].rvs, IF n_samples = NoneV THEN 1 ELSE n_samples.n) :
            LET r == Categorical_rvs(dimensions[1], n_samples, choices)
            IN  /\ out' = [NoOp EXCEPT !.op = "rvs", !.arg = <<n_samples>>, !.err = r.err,
                                       !.val = IF r.err = "" THEN AsRows(r.val) ELSE <<>>,
                                       !.aux = AsRows(choices)]
                /\ UNCHANGED <<dimensions, dims0, clean>>

\* dim.is_constant
IsConstant ==
    /\ Len(dimensions) = 1
    /\ out' = [NoOp EXCEPT !.op = "is_constant", !.val = Dim_is_constant(dimensions[1])]
    /\ UNCHANGED <<dimensions, dims0, clean>>

NextDim ==
    \/ ConstructReal
    \/ ConstructInteger
    \/ ConstructCategorical
    \/ SetTransformer
    \/ DimTransform
    \/ DimRoundTrip
    \/ DimInverseTransform
    \/ CategoricalRvs
    \/ IsConstant

SpecDim == InitDim /\ [][NextDim]_vars

(***************************************************************************)
(* The batch machine: a Space of Integer and Categorical dimensions, its   *)
(* set_transformer, transform and inverse_transform.                       *)
(***************************************************************************)
XfDimChoices(id) ==
    { r.obj : r \in
        ({Integer_init(id, Num(0), Num(MaxHigh), "uniform", 10, NoneMode, Str("x"),
                       DType("type", "int64"))}
         \cup {Categorical_init(id, Cats(n), NoneMode, NoneV) : n \in 1..MaxCats}) }

XfSpaces ==
    UNION { {dims \in [1..n -> UNION {XfDimChoices(j) : j \in 1..n}] :
                \A j \in 1..n : dims[j].id = j} : n \in 1..MaxDims }

\* the points of a Space
XfPoints(dims) ==
    {pt \in [1..Len(dims) -> UNION {PointsOf(dims[j]) : j \in 1..Len(dims)}] :
        \A j \in 1..Len(dims) : pt[j] \in PointsOf(dims[j])}

\* the sample matrices handed to Space.transform: every one-row matrix, and
\* (for MaxSamples >= 2) one matrix of two rows, different when the Space has
\* two points
XfSamples(dims) ==
    LET first == CHOOSE pt \in XfPoints(dims) : TRUE
        other == CHOOSE pt \in XfPoints(dims) : pt # first \/ Cardinality(XfPoints(dims)) = 1
    IN  {<<pt>> : pt \in XfPoints(dims)}
        \cup (IF MaxSamples >= 2 THEN {<<first, other>>} ELSE {})

InitXf ==
    /\ dimensions \in XfSpaces
    /\ dims0 = dimensions
    /\ out = NoOp
    /\ clean = TRUE

\* space.dimensions[j].set_transformer(mode)
XfSetTransformer ==
    \E j \in 1..Len(dimensions), mode \in Modes :
        LET r == Dim_set_transformer(dimensions[j], mode)
        IN  /\ dimensions' = [dimensions EXCEPT ![j] = r.obj]
            /\ out' = [NoOp EXCEPT !.op = "Dimension.set_transformer", !.j = j,
                                   !.arg = <<mode>>, !.err = r.err]
            /\ clean' = (clean /\ r.err = "")
            /\ UNCHANGED dims0

\* Xt = space.transform(X); aux keeps what each dimension returned for its column
SpaceTransform ==
    \E X \in XfSamples(dimensions) :
        LET r == Space_transform(dimensions, X)
            columns == [j \in 1..Len(dimensions) |->
                           Dimension_transform(dimensions[j],
                                               [i \in 1..Len(X) |-> X[i][j]]).rows]
        IN  /\ out' = [NoOp EXCEPT !.op = "Space.transform", !.arg = X, !.err = r.err,
                                   !.val = r.rows,
                                   !.aux = IF r.err = "" THEN columns ELSE <<>>]
            /\ UNCHANGED <<dimensions, dims0, clean>>

\* space.inverse_transform(Xt) of the Xt the last transform returned; arg keeps X
SpaceInverseTransform ==
    /\ out.op = "Space.transform" /\ out.err = ""
    /\ LET r == Space_inverse_transform(dimensions, out.val)
       IN  out' = [NoOp EXCEPT !.op = "Space.inverse_transform", !.arg = out.arg,
                               !.err = r.err, !.val = r.rows, !.aux = out.val]
    /\ UNCHANGED <<dimensions, dims0, clean>>

NextXf ==
    \/ XfSetTransformer
    \/ SpaceTransform
    \/ SpaceInverseTransform

SpecXf == InitXf /\ [][NextXf]_vars

(***************************************************************************)
(* The lookup machine: a Space of named and unnamed dimensions and its     *)
(* __getitem__.                                                            *)
(***************************************************************************)
LookupNames == {NoneV, Str("x"), Str("y")}
\* keys: names present and absent, positions inside and outside, and None
LookupKeys == {Str("x"), Str("y"), Str("z"), NoneV} \cup {Num(i) : i \in -1..MaxDims}

LookupDimChoices(id) ==
    { r.obj : r \in
        ({Integer_init(id, Num(0), Num(MaxHigh), "uniform", 10, NoneMode, n,
                       DType("type", "int64")) : n \in LookupNames}
         \cup {Real_init(id, Num(0), Num(MaxHigh), "uniform", 10, NoneMode, n,
                         DType("type", "float")) : n \in LookupNames}) }

LookupSpaces ==
    UNION { {dims \in [1..n -> UNION {LookupDimChoices(j) : j \in 1..n}] :
                \A j \in 1..n : dims[j].id = j} : n \in 1..MaxDims }

InitLookup ==
    /\ dimensions \in LookupSpaces
    /\ dims0 = dimensions
    /\ out = NoOp
    /\ clean = TRUE

\* space[key]
GetItem ==
    \E key \in LookupKeys :
        LET r == Space_getitem(dimensions, FALSE, <<key>>)
        IN  /\ out' = [NoOp EXCEPT !.op = "getitem", !.arg = <<key>>, !.err = r.err,
                                   !.val = r.val]
            /\ UNCHANGED <<dimensions, dims0, clean>>

\* space[[key, ...]]
GetItemList ==
    \E n \in 0..MaxDims : \E keys \in [1..n -> LookupKeys] :
        LET r == Space_getitem(dimensions, TRUE, keys)
        IN  /\ out' = [NoOp EXCEPT !.op = "getitem[list]", !.arg = keys, !.err = r.err,
                                   !.val = r.val]
            /\ UNCHANGED <<dimensions, dims0, clean>>

NextLookup ==
    \/ GetItem
    \/ GetItemList

SpecLookup == InitLookup /\ [][NextLookup]_vars

(***************************************************************************)
(* The metric machine: a Space, its dimensions' distance and its own.      *)
(***************************************************************************)
\* operands handed to distance: for a numeric dimension one value under low,
\* the bounds and the midpoint; for a Categorical its categories and a stranger
MetricVals(d) ==
    IF d.kind = "Categorical"
    THEN {d.categories[i] : i \in 1..Len(d.categories)} \cup {Str("d")}
    ELSE {RSub(d.low, Num(1)), d.low, RDiv(RAdd(d.low, d.high), Num(2)), d.high}

MetricPoints(dims) ==
    {pt \in [1..Len(dims) -> UNION {MetricVals(dims[j]) : j \in 1..Len(dims)}] :
        \A j \in 1..Len(dims) : pt[j] \in MetricVals(dims[j])}

InitMetric ==
    /\ dimensions \in Spaces
    /\ dims0 = dimensions
    /\ out = NoOp
    /\ clean = TRUE

\* space.dimensions[j].distance(a, b)
DimDistance ==
    \E j \in 1..Len(dimensions) :
        \E a \in MetricVals(dimensions[j]), b \in MetricVals(dimensions[j]) :
            LET r == Dim_distance(dimensions[j], a, b)
            IN  /\ out' = [NoOp EXCEPT !.op = "Dimension.distance", !.j = j,
                                       !.arg = <<a, b>>, !.err = r.err, !.val = r.val]
                /\ UNCHANGED <<dimensions, dims0, clean>>

\* space.distance(point_a, point_b)
SpaceDistance ==
    \E point_a \in MetricPoints(dimensions), point_b \in MetricPoints(dimensions) :
        LET r == Space_distance(dimensions, point_a, point_b)
        IN  /\ out' = [NoOp EXCEPT !.op = "Space.distance", !.arg = <<point_a, point_b>>,
                                   !.err = r.err, !.val = r.val]
            /\ UNCHANGED <<dimensions, dims0, clean>>

NextMetric ==
    \/ DimDistance
    \/ SpaceDistance

SpecMetric == InitMetric /\ [][NextMetric]_vars

(***************************************************************************)
(* The membership machine: a Space and its __contains__.                   *)
(***************************************************************************)
\* coordinates past the last dimension of a long point
ExtraVals == {Num(-1), Str("d")}

\* points of every length from empty to one coordinate more than the Space
\* has dimensions; coordinate j is a number for a numeric dimension and a str
\* for a Categorical, inside or outside it
ContainsPoints(dims) ==
    UNION { {pt \in [1..n -> UNION {MetricVals(dims[j]) : j \in 1..Len(dims)} \cup ExtraVals] :
                \A j \in 1..n : IF j <= Len(dims) THEN pt[j] \in MetricVals(dims[j])
                                 ELSE pt[j] \in ExtraVals} : n \in 0..(Len(dims) + 1) }

InitMember ==
    /\ dimensions \in Spaces
    /\ dims0 = dimensions
    /\ out = NoOp
    /\ clean = TRUE

\* point in space
SpaceContains ==
    \E point \in ContainsPoints(dimensions) :
        /\ out' = [NoOp EXCEPT !.op = "Space.__contains__", !.arg = <<point>>,
                               !.val = Space_contains(dimensions, point)]
        /\ UNCHANGED <<dimensions, dims0, clean>>

NextMember == SpaceContains

SpecMember == InitMember /\ [][NextMember]_vars

(***************************************************************************)
(* The inference machine: check_dimension on raw descriptions.             *)
(***************************************************************************)
MaxRawLen == 5
\* what the first two places of a description are drawn from: two ints, a
\* fractional and a whole float, a str, a bool and None
RawBounds == {Elem("int", Num(1)), Elem("int", Num(2)), Elem("float", Rat(3, 2)),
              Elem("float", Num(4)), Elem("str", Str("a")), Elem("bool", Num(1)),
              Elem("NoneType", NoneV)}
RawThird == {Elem("str", Str("uniform")), Elem("str", Str("log-uniform")),
             Elem("str", Str("b")), Elem("int", Num(3))}
RawFourth == {Elem("int", Num(2)), Elem("float", Rat(5, 2)), Elem("str", Str("c"))}
RawRest == {Elem("str", Str("d"))}

RawAt(i) == IF i <= 2 THEN RawBounds ELSE IF i = 3 THEN RawThird
            ELSE IF i = 4 THEN RawFourth ELSE RawRest

\* the descriptions handed to check_dimension
RawDescriptions ==
    {[form |-> "seq", elems |-> e, obj |-> NoDim] :
        e \in UNION {{q \in [1..n -> RawBounds \cup RawThird \cup RawFourth \cup RawRest] :
                         \A i \in 1..n : q[i] \in RawAt(i)} : n \in 0..MaxRawLen}}
    \cup {[form |-> "other", elems |-> <<>>, obj |-> NoDim]}
    \cup {[form |-> "Dimension", elems |-> <<>>, obj |-> o] : o \in DimChoices(1)}

\* the call's arguments are drawn at the start
InitInfer ==
    /\ dimensions = <<>>
    /\ dims0 = <<>>
    /\ \E dimension \in RawDescriptions, transform \in {NoneMode, "normalize"} :
           out = [NoOp EXCEPT !.arg = <<dimension, transform>>]
    /\ clean = TRUE

\* check_dimension(dimension, transform): the Space keeps what it returned
CheckDimension ==
    /\ out.op = ""
    /\ LET r == check_dimension(out.arg[1], out.arg[2])
       IN  /\ dimensions' = IF r.err = "" THEN <<r.obj>> ELSE <<>>
           /\ dims0' = dimensions'
           /\ out' = [out EXCEPT !.op = "check_dimension", !.err = r.err, !.aux = r.cls]
    /\ UNCHANGED clean

NextInfer == CheckDimension

SpecInfer == InitInfer /\ [][NextInfer]_vars

(***************************************************************************)
(* Claims about one dimension, checked under SpecDim.                      *)
(***************************************************************************)
TheDim == dimensions[1]
Cells(rows) == UNION {{rows[i][j] : j \in 1..Len(rows[i])} : i \in 1..Len(rows)}

\* C3: for an Integer dimension with uniform prior, in identity and in normalize
\* mode, inverse_transform(transform([v])) is exactly [v] for every integer v
\* with low <= v <= high.
C3_IntegerRoundTrip ==
    (/\ Len(dimensions) = 1
     /\ out.op = "roundtrip"
     /\ TheDim.kind = "Integer" /\ TheDim.prior = "uniform"
     /\ TheDim.transform_ \in {"identity", "normalize"})
    => out.err = "" /\ out.val = <<out.arg>>

\* an integer strictly inside a normalized Integer came back from a warped
\* value that floating-point rounding left just under the exact quotient
C3_Witness ==
    /\ Len(dimensions) = 1
    /\ out.op = "roundtrip" /\ out.err = ""
    /\ TheDim.kind = "Integer" /\ TheDim.prior = "uniform"
    /\ TheDim.transform_ = "normalize"
    /\ RLt(TheDim.low, out.arg[1]) /\ RLt(out.arg[1], TheDim.high)
    /\ out.val = <<out.arg>>

C6_Case ==
    /\ Len(dimensions) = 1
    /\ out.op = "inverse_transform" /\ out.err = ""
    /\ TheDim.kind = "Real" /\ TheDim.prior = "uniform"
    /\ TheDim.transform_ = "normalize_unbounded"
    /\ (RLt(out.arg[1], Num(0)) \/ RLt(Num(1), out.arg[1]))

C6_Image == RAdd(TheDim.low, RMul(out.arg[1], RSub(TheDim.high, TheDim.low)))

\* C6 as stated: in normalize_unbounded mode a Real's inverse_transform maps a
\* warped y outside [0, 1] to low + y*(high - low), outside [low, high].
C6_Original_UnclampedInverse ==
    C6_Case => /\ out.val = <<<<C6_Image>>>>
               /\ (RLt(C6_Image, TheDim.low) \/ RLt(TheDim.high, C6_Image))

\* C6 amended: only the Normalize stage is unclamped; Real.inverse_transform
\* clips what the pipeline returns, so y < 0 comes back as low and y > 1 as high.
C6_ClippedAfterUnclampedStage ==
    C6_Case => /\ out.aux = <<<<C6_Image>>>>
               /\ out.val = <<<<AsType(IF RLt(out.arg[1], Num(0)) THEN TheDim.low
                                       ELSE TheDim.high, TheDim.dtype)>>>>

C6_Witness ==
    /\ C6_Case
    /\ RLt(Num(1), out.arg[1])
    /\ out.val = <<<<TheDim.high>>>>
    /\ \E c \in Cells(out.aux) : RLt(TheDim.high, c)

\* the dimension can take exactly one value
OneRealizable(d) ==
    CASE d.kind = "Categorical" ->
            Cardinality({d.categories[i] : i \in 1..Len(d.categories)}) = 1
      [] d.kind = "Integer" -> Cardinality(d.low.n..RFloor(d.high)) = 1
      [] d.kind = "Real" -> d.low = d.high

\* C7: is_constant is True exactly when the dimension has one realizable value
\* (duplicate categories permitted).
C7_IsConstantIffOneValue ==
    (Len(dimensions) = 1 /\ out.op = "is_constant") => (out.val <=> OneRealizable(TheDim))

SupportedModes(kind) ==
    CASE kind = "Real" -> {"identity", "normalize", "normalize_unbounded"}
      [] kind = "Integer" -> {"identity", "normalize"}
      [] kind = "Categorical" -> {"identity", "onehot", "string", "label", "normalize",
                                  "normalize_unbounded"}

InvalidArgs(kind, a) ==
    \/ RLe(a[2], a[1])
    \/ a[3] \notin {"uniform", "log-uniform"}
    \/ a[5].name \notin (IF kind = "Real" THEN FloatNames ELSE IntNames)
    \/ a[4] \notin SupportedModes(kind) \cup {NoneMode}

\* C10: constructing a Real or an Integer raises ValueError and yields no object
\* whenever high <= low, the prior is unknown, the dtype is not an accepted
\* floating (Real) / integer (Integer) type, or the mode is unsupported.
C10_InvalidConstructionRaises ==
    (out.op \in {"Real", "Integer"} /\ InvalidArgs(out.op, out.arg))
    => out.err = "ValueError" /\ dimensions = <<>>

\* C16: rvs(n_samples=n) of a Categorical configured in any mode it supports,
\* normalize and normalize_unbounded included, returns without an error n
\* members of categories; in the two normalize modes they are the inverse
\* transform of the draws from [0, 1].
C16_Case ==
    /\ Len(dimensions) = 1
    /\ out.op = "rvs"
    /\ out.arg[1] # NoneV
    /\ TheDim.transform_ \in SupportedModes("Categorical")

C16_RvsReturnsMembers ==
    C16_Case =>
        /\ out.err = ""
        /\ Len(out.val) = out.arg[1].n
        /\ \A i \in 1..Len(out.val) : Categorical_contains(TheDim, out.val[i][1])
        /\ HasNormalize(TheDim.transform_) =>
                /\ \A i \in 1..Len(out.aux) :
                       RLe(Num(0), out.aux[i][1]) /\ RLe(out.aux[i][1], Num(1))
                /\ out.val = Categorical_inverse_transform(TheDim, out.aux).rows

\* C18: for a Real or Integer dimension of either prior (log-uniform with any
\* base) in any mode it supports, and every v with low <= v <= high, the
\* warped value transform([v]) lies within transformed_bounds.
C18_Case ==
    /\ Len(dimensions) = 1
    /\ TheDim.kind \in {"Real", "Integer"}
    /\ TheDim.transform_ \in SupportedModes(TheDim.kind)
    /\ out.op = "transform"
    /\ Real_contains(TheDim, out.arg[1])
    /\ Dimension_transform(TheDim, out.arg).err = ""
    /\ IsNum(Dim_transformed_bounds(TheDim)[1])
    /\ IsNum(Dim_transformed_bounds(TheDim)[2])

C18_TransformWithinBounds ==
    C18_Case =>
        LET t == Dimension_transform(TheDim, out.arg).rows[1][1]
            b == Dim_transformed_bounds(TheDim)
        IN  RLe(b[1], t) /\ RLe(t, b[2])

\* C19: a set_transformer call that raises has overwritten transform_ with the
\* rejected string and left transformer and _rvs (and every other field) as
\* they were, so transform_ names no mode of the variant while the pipeline of
\* the last accepted mode stays installed.
C19_Failed == out'.op = "set_transformer" /\ out'.err # ""

C19_FailedCallKeepsPipeline ==
    [][C19_Failed =>
        /\ out'.err = "ValueError"
        /\ dimensions'[1].transform_ = out'.arg[1]
        /\ dimensions'[1].transform_ \notin SupportedModes(dimensions[1].kind)
        /\ dimensions'[1].transformer = dimensions[1].transformer
        /\ dimensions'[1].rvs = dimensions[1].rvs
        /\ dimensions' = <<[dimensions[1] EXCEPT !.transform_ = out'.arg[1]]>>]_vars

\* a three-category Categorical that still holds its one-hot encoder after
\* 'bogus' was rejected: transformed_size now reads 1
C19_Witness ==
    /\ out.op = "set_transformer" /\ out.err = "ValueError"
    /\ TheDim.kind = "Categorical"
    /\ Len(TheDim.categories) = 3
    /\ HasStage(TheDim, "CategoricalEncoder")
    /\ TheDim.transform_ = "bogus"
    /\ Dim_transformed_size(TheDim) = 1
    /\ Len(Dimension_transform(TheDim, <<TheDim.categories[1]>>).rows[1]) = 3

(***************************************************************************)
(* Claims about a Space's transform and inverse_transform, checked under   *)
(* SpecXf.                                                                 *)
(***************************************************************************)
\* C1: when every dimension is an Integer with uniform prior or a Categorical,
\* in any mode each supports, inverse_transform(transform(X)) returns X.
C1_SpaceRoundTrip ==
    (/\ out.op = "Space.inverse_transform"
     /\ clean
     /\ \A j \in 1..Len(dimensions) :
            \/ dimensions[j].kind = "Categorical"
            \/ dimensions[j].kind = "Integer" /\ dimensions[j].prior = "uniform")
    => out.err = "" /\ out.val = out.arg

\* the columns [start, start + transformed_size) inverse_transform slices out of
\* Xt for dimension j
BlockOf(Xt, dims, j) == Slice(Xt, StartOf(dims, j), Dim_transformed_size(dims[j]))

\* C2: once every set_transformer call has succeeded, transform(X) returns a
\* matrix with one row per sample and transformed_n_dims columns, in which
\* dimension j's own transform of its column occupies exactly the block that
\* inverse_transform slices out for j.
C2_TransformShape ==
    (out.op = "Space.transform" /\ clean)
    => /\ out.err = ""
       /\ Len(out.val) = Len(out.arg)
       /\ \A i \in 1..Len(out.val) :
              Len(out.val[i]) = Space_transformed_n_dims(dimensions)
       /\ \A j \in 1..Len(dimensions) :
              LET blk == BlockOf(out.val, dimensions, j)
              IN  /\ FirstErr(blk) = ""
                  /\ \A i \in 1..Len(blk) :
                         Len(blk[i]) = Dim_transformed_size(dimensions[j])
                  /\ MapCells(blk, PyStr) = MapCells(out.aux[j], PyStr)

\* two samples of a two-dimensional Space whose first dimension is a collapsed
\* two-category one-hot and whose second is a three-category one-hot
C2_Witness ==
    /\ out.op = "Space.transform" /\ clean /\ out.err = ""
    /\ Len(out.arg) = 2 /\ Len(dimensions) = 2
    /\ dimensions[1].kind = "Categorical" /\ dimensions[1].transform_ = "onehot"
    /\ Len(dimensions[1].categories) = 2
    /\ dimensions[2].kind = "Categorical" /\ dimensions[2].transform_ = "onehot"
    /\ Len(dimensions[2].categories) = 3
    /\ Len(out.val[1]) = 4

(***************************************************************************)
(* Claims about the set_transformer family, checked under Spec.            *)
(***************************************************************************)
\* everything of a dimension that set_transformer has no business with
Frame(d) == <<d.id, d.kind, d.low, d.high, d.prior, d.base, d.dtype, d.name, d.categories>>

\* C4: whatever set_transformer calls were made (on a dimension, on the Space
\* with one mode, with a list, or by type; returning or raising), every
\* dimension keeps its low, high, prior, base, dtype, name and categories, and
\* the Space holds the same dimension objects in the same order.
C4_FrameUnchanged ==
    /\ Len(dimensions) = Len(dims0)
    /\ \A j \in 1..Len(dimensions) : Frame(dimensions[j]) = Frame(dims0[j])

\* a per-list call raised at the second dimension after re-fitting the first
C4_Witness ==
    /\ out.op = "Space.set_transformer[list]" /\ out.err = "ValueError"
    /\ Len(dimensions) = 2
    /\ dimensions[1].kind = "Real"
    /\ dimensions[1].transformer # dims0[1].transformer
    /\ dimensions[2].transform_ \notin SupportedModes(dimensions[2].kind)
    /\ C4_FrameUnchanged

\* C17: after a set_transformer or set_transformer_by_type call of the Space
\* that returned, n_dims is the number of dimensions, bounds has n_dims
\* entries, transformed_n_dims is the sum of the dimensions' transformed_size,
\* and transformed_bounds has transformed_n_dims entries.
C17_Case ==
    /\ out.op \in {"Space.set_transformer", "Space.set_transformer[list]",
                   "Space.set_transformer_by_type"}
    /\ out.err = ""

RECURSIVE SizeSum(_)
SizeSum(dims) ==
    IF dims = <<>> THEN 0 ELSE Dim_transformed_size(Head(dims)) + SizeSum(Tail(dims))

C17_SizesAgree ==
    C17_Case =>
        /\ Space_n_dims(dimensions) = Len(dimensions)
        /\ Len(Space_bounds(dimensions)) = Space_n_dims(dimensions)
        /\ Space_transformed_n_dims(dimensions) = SizeSum(dimensions)
        /\ Len(Space_transformed_bounds(dimensions)) = Space_transformed_n_dims(dimensions)

\* a two-dimension Space whose Categorical occupies a three-column one-hot block
C17_Witness ==
    /\ C17_Case
    /\ Len(dimensions) = 2
    /\ \E j \in 1..2 : /\ dimensions[j].kind = "Categorical"
                       /\ dimensions[j].transform_ = "onehot"
                       /\ Len(dimensions[j].categories) = 3
    /\ Space_transformed_n_dims(dimensions) = 4
    /\ Len(Space_transformed_bounds(dimensions)) = 4

\* C20: Space.set_transformer configures the dimensions in index order and
\* stops at the first dimension j that rejects its mode: the dimensions before
\* j hold the new transformer, dimension j holds the rejected string over its
\* old pipeline, and the dimensions after j keep their transformer and
\* transform_; the call returns only when no dimension rejects.
\* set_transformer_by_type leaves every dimension that is not an instance of
\* dim_type unchanged.
C20_IsList == out'.op = "Space.set_transformer[list]"
C20_ModeAt(j) == IF C20_IsList THEN out'.arg[j] ELSE out'.arg[1]
\* dimension j ends the loop: its mode is missing from a short list, or is not
\* a mode of its variant
C20_Stops(j) ==
    \/ C20_IsList /\ j > Len(out'.arg)
    \/ ~(C20_IsList /\ j > Len(out'.arg)) /\
            C20_ModeAt(j) \notin SupportedModes(dimensions[j].kind)
C20_First ==
    IF \E j \in 1..Len(dimensions) : C20_Stops(j)
    THEN CHOOSE j \in 1..Len(dimensions) : C20_Stops(j) /\ \A h \in 1..(j - 1) : ~C20_Stops(h)
    ELSE Len(dimensions) + 1

C20_SetTransformerStep ==
    out'.op \in {"Space.set_transformer", "Space.set_transformer[list]"} =>
        /\ Len(dimensions') = Len(dimensions)
        /\ (out'.err = "") = (C20_First = Len(dimensions) + 1)
        /\ \A j \in 1..Len(dimensions) :
            /\ j < C20_First =>
                    /\ dimensions'[j].transform_ = C20_ModeAt(j)
                    /\ dimensions'[j] = Dim_set_transformer(dimensions[j], C20_ModeAt(j)).obj
            /\ j = C20_First /\ ~(C20_IsList /\ j > Len(out'.arg)) =>
                    dimensions'[j] = [dimensions[j] EXCEPT !.transform_ = C20_ModeAt(j)]
            /\ j = C20_First /\ C20_IsList /\ j > Len(out'.arg) =>
                    dimensions'[j] = dimensions[j]
            /\ j > C20_First => dimensions'[j] = dimensions[j]

C20_ByTypeStep ==
    out'.op = "Space.set_transformer_by_type" =>
        /\ Len(dimensions') = Len(dimensions)
        /\ \A j \in 1..Len(dimensions) :
               ~IsInstance(dimensions[j], out'.arg[2]) => dimensions'[j] = dimensions[j]

C20_StopsAtFirstRejection == [][C20_SetTransformerStep /\ C20_ByTypeStep]_vars

\* set_transformer("onehot") stopped at the Real in front: the Categorical
\* behind it, which accepts onehot, is still in identity mode
C20_Witness ==
    /\ out.op = "Space.set_transformer" /\ out.arg = <<"onehot">>
    /\ out.err = "ValueError"
    /\ Len(dimensions) = 2
    /\ dimensions[1].kind = "Real" /\ dimensions[1].transform_ = "onehot"
    /\ dimensions[2].kind = "Categorical" /\ dimensions[2].transform_ = "identity"
    /\ dimensions[2].transformer = <<Identity>>

(***************************************************************************)
(* Claims about Space.__getitem__, checked under SpecLookup.               *)
(***************************************************************************)
\* the positions (from 0) whose dimension has name k or that equal k
Matching(dims, k) == {i \in 0..(Len(dims) - 1) : dims[i + 1].name = k \/ k = Num(i)}

FirstMatch(dims, k) ==
    IF Matching(dims, k) = {} THEN <<NoneV, NoDim>>
    ELSE LET i == CHOOSE m \in Matching(dims, k) : \A h \in Matching(dims, k) : m <= h
         IN  <<Num(i), dims[i + 1]>>

\* C8: Space[k] returns (i, dimensions[i]) for the smallest position i whose
\* dimension is named k or that equals k, (None, None) when there is none, and
\* for a list of keys the list of the per-key results in order.
C8_GetItemFirstMatch ==
    /\ (out.op = "getitem" /\ out.err = "")
       => out.val = FirstMatch(dimensions, out.arg[1])
    /\ out.op = "getitem[list]"
       => /\ out.err = ""
          /\ out.val = [i \in 1..Len(out.arg) |-> FirstMatch(dimensions, out.arg[i])]

\* two dimensions share the name "x": a list lookup of "x" and of the absent "z"
\* returned position 0 and (None, None)
C8_Witness ==
    /\ out.op = "getitem[list]"
    /\ Len(dimensions) = 2
    /\ dimensions[1].name = Str("x") /\ dimensions[2].name = Str("x")
    /\ out.arg = <<Str("x"), Str("z")>>
    /\ out.val = <<<<Num(0), dimensions[1]>>, <<NoneV, NoDim>>>>

(***************************************************************************)
(* Claims about distance, checked under SpecMetric.                        *)
(***************************************************************************)
\* the distance call of a dimension on operands of which one is not a member
C11_NonMember ==
    /\ out.op = "Dimension.distance"
    /\ \E i \in 1..2 : ~Dim_contains(dimensions[out.j], out.arg[i])

\* C11 as stated: distance(a, b) of a dimension fails with a ValueError when a
\* or b is not a member, and does not fail when both are.
C11_Original_ValueError ==
    out.op = "Dimension.distance"
    => (IF C11_NonMember THEN out.err = "ValueError" ELSE out.err = "")

\* C11 amended: distance(a, b) of a Real, Integer or Categorical raises
\* RuntimeError exactly when a or b is not a member of the dimension, and
\* returns otherwise.
C11_RuntimeErrorIffNonMember ==
    out.op = "Dimension.distance"
    => (IF C11_NonMember THEN out.err = "RuntimeError" ELSE out.err = "")

\* a Real was asked for the distance from a member to a value under low
C11_Witness ==
    /\ C11_NonMember
    /\ dimensions[out.j].kind = "Real"
    /\ Dim_contains(dimensions[out.j], out.arg[1])
    /\ RLt(out.arg[2], dimensions[out.j].low)
    /\ out.err = "RuntimeError"

\* what the claim says dimension d contributes for the coordinates a and b
Contribution(d, a, b) ==
    IF d.kind = "Categorical" THEN (IF a = b THEN Num(0) ELSE Num(1)) ELSE RAbs(RSub(a, b))

RECURSIVE SumContributions(_, _, _, _)
SumContributions(dims, a, b, j) ==
    IF j = 0 THEN Num(0)
    ELSE RAdd(SumContributions(dims, a, b, j - 1), Contribution(dims[j], a[j], b[j]))

\* C12: for two points with n_dims coordinates, each inside its dimension,
\* Space.distance returns the sum over the dimensions of |a[j] - b[j]| for a
\* numeric dimension and of 0 / 1 (equal / different) for a Categorical.
C12_SpaceDistanceIsSum ==
    (/\ out.op = "Space.distance"
     /\ \A i \in 1..2 :
            /\ Len(out.arg[i]) = Len(dimensions)
            /\ \A j \in 1..Len(dimensions) : Dim_contains(dimensions[j], out.arg[i][j]))
    => /\ out.err = ""
       /\ out.val = SumContributions(dimensions, out.arg[1], out.arg[2], Len(dimensions))

\* a numeric and a three-category dimension both contributed
C12_Witness ==
    /\ out.op = "Space.distance" /\ out.err = ""
    /\ Len(dimensions) = 2
    /\ dimensions[1].kind = "Real"
    /\ dimensions[2].kind = "Categorical" /\ Len(dimensions[2].categories) = 3
    /\ out.arg[1][2] = Str("a") /\ out.arg[2][2] = Str("c")
    /\ out.arg[1][1] # out.arg[2][1]
    /\ out.val = RAdd(RAbs(RSub(out.arg[1][1], out.arg[2][1])), Num(1))

(***************************************************************************)
(* Claims about check_dimension, checked under SpecInfer.                  *)
(***************************************************************************)
\* the description of the call and what came of it
RawElems == out.arg[1].elems
IsCall(n) == out.op = "check_dimension" /\ out.arg[1].form = "seq" /\ Len(RawElems) = n

\* the call returned a dimension of the variant
Returned(kind) == out.err = "" /\ Len(dimensions) = 1 /\ dimensions[1].kind = kind
\* the description went to the variant's constructor, which returned the
\* dimension unless it refused the bounds
WentTo(kind) == out.aux = kind /\ (out.err = "" => Returned(kind))

\* the numeric-type rule on the first two elements
EitherStrOrBool == \E i \in 1..2 : RawElems[i].ty \in {"str", "bool"}
BothWhole == \A i \in 1..2 : RawElems[i].ty = "int"
EitherFloat == \E i \in 1..2 : RawElems[i].ty = "float"

\* C13: for a description of length 2, check_dimension returns a Categorical if
\* either element is a bool or a str, otherwise builds an Integer if both are
\* integers, otherwise a Real if either is a float, and otherwise raises.
C13_Length2Rule ==
    IsCall(2)
    => (IF EitherStrOrBool THEN Returned("Categorical")
        ELSE IF BothWhole THEN WentTo("Integer")
        ELSE IF EitherFloat THEN WentTo("Real")
        ELSE out.err # "")

\* an int below a whole-valued float made a Real
C13_Witness ==
    /\ IsCall(2)
    /\ RawElems[1] = Elem("int", Num(1)) /\ RawElems[2] = Elem("float", Num(4))
    /\ Returned("Real")
    /\ dimensions[1].low = Num(1) /\ dimensions[1].high = Num(4)

\* C14: for a description of length 3 whose third element is "uniform" or
\* "log-uniform", the first two elements are classified as for length 2:
\* Categorical over all three values if either is a bool or a str, Integer only
\* if both are integers, Real if either is a float.
C14_Length3SameRule ==
    (IsCall(3) /\ RawElems[3].v \in {Str("uniform"), Str("log-uniform")})
    => (IF EitherStrOrBool
        THEN Returned("Categorical") /\ dimensions[1].categories = Values(RawElems)
        ELSE IF BothWhole THEN WentTo("Integer")
        ELSE IF EitherFloat THEN WentTo("Real")
        ELSE TRUE)

\* C15: a description of length >= 4 goes to Integer or Real only when it has
\* exactly 4 elements, the third "log-uniform" and the fourth an integer base;
\* any other becomes a Categorical over all its values; no description of
\* length >= 1 other than 2 is refused by the classification; a description of
\* length 0 and a non-sequence raise ValueError.
C15_Length4AndFallback ==
    /\ (out.op = "check_dimension" /\ out.arg[1].form = "seq" /\ Len(RawElems) >= 4)
       => IF out.aux \in {"Integer", "Real"}
          THEN /\ Len(RawElems) = 4
               /\ RawElems[3].v = Str("log-uniform")
               /\ RawElems[4].ty = "int"
               /\ WentTo(out.aux)
          ELSE Returned("Categorical") /\ dimensions[1].categories = Values(RawElems)
    /\ (out.op = "check_dimension" /\ out.arg[1].form = "seq"
        /\ Len(RawElems) >= 1 /\ Len(RawElems) # 2)
       => out.aux # ""
    /\ (out.op = "check_dimension"
        /\ (out.arg[1].form = "other" \/ (out.arg[1].form = "seq" /\ Len(RawElems) = 0)))
       => out.err = "ValueError" /\ out.aux = ""

\* two ints, "uniform" and an integer base: not the length-4 rule, so a
\* Categorical over the four values
C15_Witness ==
    /\ IsCall(4)
    /\ RawElems[1].ty = "int" /\ RawElems[2].ty = "int"
    /\ RawElems[3].v = Str("uniform") /\ RawElems[4].ty = "int"
    /\ Returned("Categorical")
    /\ Len(dimensions[1].categories) = 4

(***************************************************************************)
(* Claims about Space.__contains__, checked under SpecMember.              *)
(***************************************************************************)
\* the positions zip pairs up: below min(len(point), n_dims)
Paired(dims, point) ==
    1..(IF Len(point) < Len(dims) THEN Len(point) ELSE Len(dims))

\* C21: point in space is True exactly when every coordinate at a position
\* below min(len(point), n_dims) is a member of the dimension at that
\* position; missing coordinates of a short point and coordinates past n_dims
\* are not looked at, so a short point (the empty one too) is contained when
\* the coordinates it has are.
C21_ContainsIffPairedMembers ==
    out.op = "Space.__contains__" =>
        LET point == out.arg[1]
        IN  out.val = (\A j \in Paired(dimensions, point) :
                          Dim_contains(dimensions[j], point[j]))

\* a one-coordinate point reported inside a two-dimension Space
C21_Witness ==
    /\ out.op = "Space.__contains__"
    /\ Len(dimensions) = 2
    /\ Len(out.arg[1]) = 1
    /\ Dim_contains(dimensions[1], out.arg[1][1])
    /\ out.val = TRUE

====
